---- MODULE Spec2Model ----
(***************************************************************************)
(* A state-machine model of the geospatial-retrieval program:              *)
(*   main.py                        the orchestrator (five dataset blocks) *)
(*   scripts/gridkit_retrieval.py   archive adapter                        *)
(*   scripts/powerplants_retrieval.py archive adapter                      *)
(*   scripts/cordis_retrieval.py    archive adapter                        *)
(*   scripts/tso_network_retrieval.py  pairwise API sweep                  *)
(*   scripts/osm_retrieval.py, scripts/osm_prepare_neo4j.py  OSM           *)
(*                                                                         *)
(* The program is sequential: main runs one dataset block after another.   *)
(* The file-system variables describe the directories of the adapter that  *)
(* main is running (or ran last); main created all of them, empty, before  *)
(* the first block, and no adapter touches another adapter's directory.    *)
(***************************************************************************)
EXTENDS Integers, Sequences, FiniteSets, TLC

\* ------------------------------------------------------------------ bounds
\* Number of entries of TSO_CODES the sweep is run over (24 in the program).
NumAreas == 2
\* Number of entries of EU_COUNTRIES the OSM stages are run over (27 in the
\* program).
NumCountries == 2
\* Largest number of rows of an input table given to a normalizer.
MaxRows == 2

\* ------------------------------------------------------- program constants
\* len(response.content) > 500
MinPayload == 500
\* response.status_code == 200
HttpOk == 200

\* The order of the dataset blocks of main.
Order == <<"osm", "gridkit", "powerplants", "tso", "cordis">>
Datasets == {Order[i] : i \in 1..Len(Order)}
ArchiveAdapters == {"gridkit", "powerplants", "cordis"}

\* ---------------------------------------------------------- sequence helpers
Range(s) == {s[i] : i \in 1..Len(s)}

RECURSIVE Concat(_, _)
Concat(s, t) == IF t = <<>> THEN s ELSE Concat(Append(s, Head(t)), Tail(t))

Take(s, n) == SubSeq(s, 1, n)

IndexOf(s, x) == CHOOSE i \in 1..Len(s) : s[i] = x

NoRepeats(s) == \A i, j \in 1..Len(s) : s[i] = s[j] => i = j

\* ------------------------------------------------------------- file names
\* The members each archive adapter reads from its extraction directory.
InputFiles(a) ==
    CASE a = "gridkit" -> {"gridkit_europe-highvoltage-vertices.csv",
                           "gridkit_europe-highvoltage-links.csv"}
      [] a = "powerplants" -> {"global_power_plant_database.csv"}
      [] a = "cordis" -> {"project.csv", "organization.csv", "topics.csv", "legalBasis.csv"}

\* The CSV files each adapter's processing stage writes, in the order of the
\* to_csv calls.
CsvFiles(a) ==
    CASE a = "gridkit" -> <<"grid_nodes.csv", "connected_to_relationships.csv">>
      [] a = "powerplants" -> <<"powerplants_nodes.csv", "countries_nodes.csv",
                                "owners_nodes.csv", "fuel_types_nodes.csv",
                                "located_in_relationships.csv",
                                "owned_by_relationships.csv",
                                "uses_fuel_relationships.csv">>
      [] a = "cordis" -> <<"projects_nodes.csv", "organizations_nodes.csv",
                           "topics_nodes.csv", "legal_basis_nodes.csv",
                           "participated_in_relationships.csv",
                           "has_topic_relationships.csv",
                           "has_legalbasis_relationships.csv">>
      [] a = "tso" -> <<"tso_nodes.csv", "interconnected_with_relationships.csv">>

\* The file name of the metadata descriptor of each adapter.
DescriptorName(a) ==
    CASE a = "gridkit" -> "gridkit.json"
      [] a = "powerplants" -> "eu_powerplants.json"
      [] a = "cordis" -> "metadata.json"
      [] a = "tso" -> "entsoe_metadata.json"

\* The CSV file names under the "files" key of the descriptor each
\* generate_metadata writes.
DescriptorFiles(a) ==
    CASE a = "gridkit" -> {"grid_nodes.csv", "connected_to_relationships.csv"}
      [] a = "powerplants" -> {"powerplants_nodes.csv", "countries_nodes.csv",
                               "owners_nodes.csv", "fuel_types_nodes.csv",
                               "located_in_relationships.csv",
                               "owned_by_relationships.csv",
                               "uses_fuel_relationships.csv"}
      [] a = "cordis" -> {"projects_nodes.csv", "organizations_nodes.csv",
                          "topics_nodes.csv", "legal_basis_nodes.csv",
                          "participated_in_relationships.csv",
                          "has_topic_relationships.csv",
                          "has_legalbasis_relationships.csv",
                          "euroSciVoc.csv", "webLink.csv", "webItem.csv"}
      [] a = "tso" -> {"tso_nodes.csv", "interconnected_with_relationships.csv"}

\* OUTPUT_FILENAME of the TSO adapter: the raw sweep result.
TsoRawCsv == "entsoe_tso_network.csv"

\* An archive member that is a directory (zipfile.extractall creates it).
SubDir == "subdirectory/"

\* What an archive may hold: the members the adapter reads, with or without
\* one of them missing, with or without a directory member.
ArchiveChoices(a) ==
    {InputFiles(a), InputFiles(a) \cup {SubDir}}
    \cup {InputFiles(a) \ {f} : f \in InputFiles(a)}

\* The columns process_cordis_data selects from each input file:
\* required_proj_cols, required_org_cols, and the columns of the topic and
\* legal-basis tables.
UsedColumns(file) ==
    CASE file = "project.csv" ->
            {"id", "acronym", "title", "objective", "startDate", "endDate",
             "ecMaxContribution", "totalCost", "topics", "legalBasis",
             "frameworkProgramme"}
      [] file = "organization.csv" ->
            {"organisationID", "name", "shortName", "country", "vatNumber", "city",
             "activityType", "projectID", "role", "ecContribution"}
      [] file = "topics.csv" -> {"topic", "title", "projectID"}
      [] file = "legalBasis.csv" -> {"legalBasis", "title", "projectID"}

\* A mutation of SelectionRaises: the columns are not checked.
SelectionRaises_Never(absent) == FALSE

\* df[[...]] raises KeyError when a selected column is not in the file;
\* absent is the set of <<file, column>> the input files lack.
SelectionRaises(absent) == \E fc \in absent : fc[2] \in UsedColumns(fc[1])

\* The columns an input file may lack: a selected column of each file, and
\* one that process_cordis_data does not select.
AbsentChoices ==
    {<<"project.csv", "endDate">>, <<"project.csv", "rcn">>,
     <<"organization.csv", "role">>, <<"topics.csv", "title">>,
     <<"legalBasis.csv", "projectID">>}

\* What the input files of an adapter's archive may lack: nothing, or (for
\* CORDIS) one column of one file.
AbsentColumnChoices(a) ==
    IF a = "cordis" THEN {{}} \cup {{fc} : fc \in AbsentChoices} ELSE {{}}

\* ------------------------------------------------------------- TSO_CODES
\* TSO_CODES, in the order of the dict literal: <<country, area code>>.
TSO_CODES ==
    << <<"Austria", "10YAT-APG------L">>, <<"Belgium", "10YBE----------2">>,
       <<"Bulgaria", "10YCA-BULGARIA-R">>, <<"Croatia", "10YHR-HEP------M">>,
       <<"Czech Republic", "10YCZ-CEPS-----N">>, <<"Denmark", "10Y1001A1001A65H">>,
       <<"Estonia", "10Y1001A1001A39I">>, <<"Finland", "10YFI-1--------U">>,
       <<"France", "10YFR-RTE------C">>, <<"Germany", "10Y1001A1001A83F">>,
       <<"Greece", "10YGR-HTSO-----Y">>, <<"Hungary", "10YHU-MAVIR----U">>,
       <<"Ireland", "10YIE-1001A00010">>, <<"Italy", "10YIT-GRTN-----B">>,
       <<"Latvia", "10YLV-1001A00074">>, <<"Lithuania", "10YLT-1001A0008Q">>,
       <<"Netherlands", "10YNL----------L">>, <<"Poland", "10YPL-AREA-----S">>,
       <<"Portugal", "10YPT-REN------W">>, <<"Romania", "10YRO-TEL------P">>,
       <<"Slovakia", "10YSK-SEPS-----K">>, <<"Slovenia", "10YSI-ELES-----O">>,
       <<"Spain", "10YES-REE------0">>, <<"Sweden", "10YSE-1--------K">> >>

\* The entries the sweep is run over.
TsoItems == Take(TSO_CODES, NumAreas)

\* for ... in TSO_CODES.items(): for ... in TSO_CODES.items(): every
\* iteration of the nested loops, in order, as <<from entry, to entry>>.
TsoIterations ==
    [k \in 1..(Len(TsoItems) * Len(TsoItems)) |->
        << TsoItems[((k - 1) \div Len(TsoItems)) + 1],
           TsoItems[((k - 1) % Len(TsoItems)) + 1] >>]

\* A mutation of ShouldQuery: the guard is dropped.
ShouldQuery_Always(from, to) == TRUE

\* `if area_from != area_to:`
ShouldQuery(from, to) == from[2] # to[2]

\* The iterations that issue a request, in order.
TsoQueryPairs == SelectSeq(TsoIterations, LAMBDA it : ShouldQuery(it[1], it[2]))

\* What one requests.get may give: a response with a status and a payload
\* length, or an exception (connection error, timeout).
TsoResponses ==
    [status : {HttpOk, 404}, len : {0, MinPayload, MinPayload + 1}, exception : {FALSE}]
    \cup {[status |-> 0, len |-> 0, exception |-> TRUE]}

\* `if response.status_code == 200 and response.content:` and
\* `if len(response.content) > 500:`
IsConnected(r) == r.status = HttpOk /\ r.len # 0 /\ r.len > MinPayload

\* The dict appended to interconnections.
Interconnection(from, to) ==
    [tso_from |-> from[1], tso_to |-> to[1],
     from_area_code |-> from[2], to_area_code |-> to[2], status |-> "Connected"]

\* DataFrame.drop_duplicates(): the first occurrence of each row is kept.
RECURSIVE DropDuplicates(_)
DropDuplicates(s) ==
    IF s = <<>> THEN <<>>
    ELSE LET init == DropDuplicates(Take(s, Len(s) - 1))
             last == s[Len(s)]
         IN  IF last \in Range(init) THEN init ELSE Append(init, last)

\* A mutation of ReadCsvRaises: an empty raw CSV is read as an empty frame.
ReadCsvRaises_Never(csv) == FALSE

\* pd.read_csv(csv_path): the CSV save_interconnections writes from an empty
\* list has no header line, and reading it raises EmptyDataError.
ReadCsvRaises(csv) == csv = <<>>

\* A mutation of TsoNodes: the to-side of the pairs is left out.
TsoNodes_FromSide(rows) ==
    DropDuplicates([i \in 1..Len(rows) |->
                       [country |-> rows[i].tso_from, area_code |-> rows[i].from_area_code]])

\* process_entsoe_tso_network: the node table, from the rows of the raw CSV.
TsoNodes(rows) ==
    DropDuplicates(
        Concat([i \in 1..Len(rows) |->
                   [country |-> rows[i].tso_from, area_code |-> rows[i].from_area_code]],
               [i \in 1..Len(rows) |->
                   [country |-> rows[i].tso_to, area_code |-> rows[i].to_area_code]]))

\* process_entsoe_tso_network: the relationship table.
TsoRelationships(rows) ==
    [i \in 1..Len(rows) |->
        [source_country |-> rows[i].tso_from, target_country |-> rows[i].tso_to,
         status |-> rows[i].status]]

\* ------------------------------------------------------------------- OSM
\* The keys of EU_COUNTRIES, in the order of the dict literal; main passes
\* the same list, in the same order, to prepare_osm_data_for_neo4j.
EU_COUNTRIES ==
    <<"Austria", "Belgium", "Bulgaria", "Croatia", "Cyprus", "Czech Republic",
      "Denmark", "Estonia", "Finland", "France", "Germany", "Greece", "Hungary",
      "Ireland", "Italy", "Latvia", "Lithuania", "Luxembourg", "Malta",
      "Netherlands", "Poland", "Portugal", "Romania", "Slovakia", "Slovenia",
      "Spain", "Sweden">>

\* The keys of ENERGY_QUERIES, in the order of the dict literal.
ENERGY_QUERIES ==
    <<"power_plants", "wind_turbines", "solar_farms", "substations",
      "transmission_lines", "ev_charging_stations">>

\* The keys of dataset_mapping of prepare_osm_data_for_neo4j, in order.
dataset_mapping ==
    <<"ev_charging_stations", "power_plants", "solar_farms", "wind_turbines",
      "substations", "transmission_lines">>

\* The categories the OSM stages are run over: two of the six, which the
\* two dicts hold in opposite orders.
ModelledCategories == {"wind_turbines", "solar_farms"}

OsmCountries == Take(EU_COUNTRIES, NumCountries)
OsmQueryCategories == SelectSeq(ENERGY_QUERIES, LAMBDA c : c \in ModelledCategories)
OsmPrepareCategories == SelectSeq(dataset_mapping, LAMBDA c : c \in ModelledCategories)

\* for country in EU_COUNTRIES: for dataset_name in ENERGY_QUERIES: the
\* iterations of retrieve_osm_data in order, as <<country, dataset>>.
OsmPairs ==
    [k \in 1..(Len(OsmCountries) * Len(OsmQueryCategories)) |->
        << OsmCountries[((k - 1) \div Len(OsmQueryCategories)) + 1],
           OsmQueryCategories[((k - 1) % Len(OsmQueryCategories)) + 1] >>]

\* f"{node_type.lower()}s_nodes.csv"
OsmNodesCsv(c) ==
    CASE c = "ev_charging_stations" -> "chargingstations_nodes.csv"
      [] c = "power_plants" -> "powerplants_nodes.csv"
      [] c = "solar_farms" -> "solarfarms_nodes.csv"
      [] c = "wind_turbines" -> "windturbines_nodes.csv"
      [] c = "substations" -> "substations_nodes.csv"
      [] c = "transmission_lines" -> "transmissionlines_nodes.csv"

\* f"{node_type.lower()}s_located_in_relationships.csv"
OsmRelationshipsCsv(c) ==
    CASE c = "ev_charging_stations" -> "chargingstations_located_in_relationships.csv"
      [] c = "power_plants" -> "powerplants_located_in_relationships.csv"
      [] c = "solar_farms" -> "solarfarms_located_in_relationships.csv"
      [] c = "wind_turbines" -> "windturbines_located_in_relationships.csv"
      [] c = "substations" -> "substations_located_in_relationships.csv"
      [] c = "transmission_lines" -> "transmissionlines_located_in_relationships.csv"

OsmCountriesCsv == "countries_nodes.csv"

\* What one iteration of retrieve_osm_data may come to.
\*   fetch_exception    requests.post or response.json() raised
\*   non200             fetch_osm_data logged the status and returned None
\*   no_data            status 200 with a falsy JSON body: `if data:` is false
\*   save_exception_before_write   save_geojson raised while building the
\*                      features (elem["id"]) or opening the GeoJSON file
\*   save_exception_after_write    save_geojson raised after the GeoJSON
\*                      file was written, while writing the sidecar metadata
\*   saved              GeoJSON and sidecar metadata written
OsmResults ==
    {"fetch_exception", "non200", "no_data", "save_exception_before_write",
     "save_exception_after_write", "saved"}

\* A mutation of SaveWritesGeojson: the GeoJSON write is moved after the
\* sidecar write.
SaveWritesGeojson_Last(result) == result = "saved"

\* Whether save_geojson got as far as writing the GeoJSON file.
SaveWritesGeojson(result) == result \in {"save_exception_after_write", "saved"}

\* A mutation of OsmCaught: save_geojson is called outside the try block.
OsmCaught_FetchOnly(result) ==
    result \notin {"save_exception_before_write", "save_exception_after_write"}

\* `try: fetch_osm_data(...); if data: save_geojson(...) except Exception:`
\* both calls are inside the try block, so every exception is caught.
OsmCaught(result) == TRUE

\* The combined tables prepare_osm_data_for_neo4j writes for the categories
\* cats (in order), given the state gj of the GeoJSON directory: a category
\* without any file is skipped; pd.concat of data frames that are all empty
\* has no osm_id column, and drop_duplicates(subset=['osm_id']) raises.
RECURSIVE OsmCombined(_, _)

\* A mutation of OsmCombined: a category whose files are all empty is
\* skipped like a category without files.
OsmCombined_SkipEmpty(cats, gj) ==
    IF cats = <<>> THEN [files |-> <<>>, raises |-> FALSE]
    ELSE LET c == Head(cats)
             rest == OsmCombined(Tail(cats), gj)
         IN  IF \A i \in 1..Len(OsmCountries) : gj[<<OsmCountries[i], c>>] # "features"
             THEN rest
             ELSE [files |-> Concat(<<OsmNodesCsv(c), OsmRelationshipsCsv(c)>>, rest.files),
                   raises |-> rest.raises]

OsmCombined(cats, gj) ==
    IF cats = <<>> THEN [files |-> <<>>, raises |-> FALSE]
    ELSE LET c == Head(cats)
             dfs == SelectSeq([i \in 1..Len(OsmCountries) |-> gj[<<OsmCountries[i], c>>]],
                              LAMBDA f : f # "absent")
             rest == OsmCombined(Tail(cats), gj)
         IN  IF dfs = <<>> THEN rest
             ELSE IF \A i \in 1..Len(dfs) : dfs[i] = "no_features"
             THEN [files |-> <<>>, raises |-> TRUE]
             ELSE [files |-> Concat(<<OsmNodesCsv(c), OsmRelationshipsCsv(c)>>, rest.files),
                   raises |-> rest.raises]

VARIABLES
    RUN,            \* main: the RUN_* toggles read from the environment
    main_pc,        \* main: the dataset block main is at, or "completed"
    started,        \* main: the pipelines started so far, in order
    outcome,        \* main: per dataset "not_run", "ok" or "caught"
    cur,            \* the adapter main called last, or "none"
    pc,             \* the stage that adapter is about to execute; "idle"
                    \* when main is between two calls
    stages,         \* the stages the running adapter has entered, in order
    failed,         \* the stage whose exception is in flight, or "none"
    raised,         \* the exception the adapter raised to its caller
    zip_exists,     \* the staging archive file exists
    extract_exists, \* the staging extraction directory exists
    extract_entries,\* the entries of the staging extraction directory
    absent_columns, \* the <<file, column>> the extracted input files lack
    written,        \* files written into the output directory, in order
    descriptors,    \* metadata descriptors written: <<[name, files]>>
    tso_pos,        \* TSO sweep: index of the next request in TsoQueryPairs
    interconnections, \* TSO sweep: the list of recorded pairs
    tso_queried,    \* TSO sweep: the <<from, to>> entries requested so far
    tso_resp,       \* TSO sweep: what the last request gave
    tso_csv,        \* rows of entsoe_tso_network.csv
    tso_nodes,      \* rows of tso_nodes.csv
    tso_rels,       \* rows of interconnected_with_relationships.csv
    osm_pos,        \* OSM fetch: index of the next iteration in OsmPairs
    osm_queried,    \* OSM fetch: the <<country, dataset>> pairs queried so far
    osm_last,       \* OSM fetch: what the last iteration came to
    geojson,        \* per <<country, dataset>>: the GeoJSON file is "absent",
                    \* holds "no_features" or holds "features"
    norm_in,        \* normalizers: the adapter and the input tables given
    norm_out        \* normalizers: whether it ran, raised, and the tables written

vars == <<RUN, main_pc, started, outcome, cur, pc, stages, failed, raised,
          zip_exists, extract_exists, extract_entries, absent_columns, written, descriptors,
          tso_pos, interconnections, tso_queried, tso_resp, tso_csv, tso_nodes,
          tso_rels, osm_pos, osm_queried, osm_last, geojson, norm_in, norm_out>>

mainVars == <<RUN, main_pc, started, outcome>>
fsVars == <<zip_exists, extract_exists, extract_entries, absent_columns, written, descriptors>>
tsoVars == <<tso_pos, interconnections, tso_queried, tso_resp, tso_csv, tso_nodes, tso_rels>>
osmVars == <<osm_pos, osm_queried, osm_last, geojson>>
normVars == <<norm_in, norm_out>>
NoResponse == [status |-> 0, len |-> 0, exception |-> FALSE]

\* ------------------------------------------------------------------- main
NextBlock(d) ==
    IF IndexOf(Order, d) = Len(Order) THEN "completed"
    ELSE Order[IndexOf(Order, d) + 1]

\* The first stage of each adapter's retrieve function.
FirstStage(d) ==
    CASE d \in ArchiveAdapters -> "download"
      [] d = "tso" -> "fetch"
      [] d = "osm" -> "retrieve"

\* The state before main runs its first block.
Idle ==
    /\ main_pc = Order[1]
    /\ started = <<>>
    /\ outcome = [d \in Datasets |-> "not_run"]
    /\ cur = "none"
    /\ pc = "idle"
    /\ stages = <<>>
    /\ failed = "none"
    /\ raised = "none"
    /\ zip_exists = FALSE
    /\ extract_exists = FALSE
    /\ extract_entries = {}
    /\ absent_columns = {}
    /\ written = <<>>
    /\ descriptors = <<>>
    /\ tso_pos = 1
    /\ interconnections = <<>>
    /\ tso_queried = <<>>
    /\ tso_resp = NoResponse
    /\ tso_csv = <<>>
    /\ tso_nodes = <<>>
    /\ tso_rels = <<>>
    /\ osm_pos = 1
    /\ osm_queried = <<>>
    /\ osm_last = "none"
    /\ geojson = [p \in Range(OsmPairs) |-> "absent"]

NoInput == [adapter |-> "none"]
NotNormalized == [done |-> FALSE, raised |-> FALSE, tables |-> [none |-> <<>>]]

\* main is started with any setting of the five RUN_* variables.
Init ==
    /\ RUN \in [Datasets -> BOOLEAN]
    /\ Idle
    /\ norm_in = NoInput
    /\ norm_out = NotNormalized

\* `if RUN_X:` is false: the block is skipped.
MainSkip(d) ==
    /\ main_pc = d
    /\ pc = "idle"
    /\ ~RUN[d]
    /\ main_pc' = NextBlock(d)
    /\ UNCHANGED <<RUN, started, outcome, cur, pc, stages, failed, raised>>
    /\ UNCHANGED normVars
    /\ UNCHANGED fsVars
    /\ UNCHANGED tsoVars
    /\ UNCHANGED osmVars

\* `if RUN_X: try: retrieve_...(output_dir=...)`: the call is entered.  The
\* archive adapters create their extraction directory before their try block.
MainCall(d) ==
    /\ main_pc = d
    /\ pc = "idle"
    /\ RUN[d]
    /\ cur' = d
    /\ started' = Append(started, d)
    /\ pc' = FirstStage(d)
    /\ stages' = <<>>
    /\ failed' = "none"
    /\ raised' = "none"
    /\ zip_exists' = FALSE
    /\ extract_exists' = (d \in ArchiveAdapters)
    /\ extract_entries' = {}
    /\ absent_columns' = {}
    /\ written' = <<>>
    /\ descriptors' = <<>>
    /\ tso_pos' = 1
    /\ interconnections' = <<>>
    /\ tso_queried' = <<>>
    /\ tso_resp' = NoResponse
    /\ tso_csv' = <<>>
    /\ tso_nodes' = <<>>
    /\ tso_rels' = <<>>
    /\ osm_pos' = 1
    /\ osm_queried' = <<>>
    /\ osm_last' = "none"
    /\ geojson' = [p \in Range(OsmPairs) |-> "absent"]
    /\ UNCHANGED <<RUN, main_pc, outcome>>
    /\ UNCHANGED normVars

\* A mutation of AfterException: the exception is not caught and ends main.
AfterException_Propagates(d) == [block |-> "aborted", result |-> "uncaught"]

\* What main does with an exception that reaches its `except Exception`:
\* it logs it and goes on to the next block.
AfterException(d) == [block |-> NextBlock(d), result |-> "caught"]

\* The call returned or raised: main logs success, or catches and logs the
\* error, and moves to the next block.
MainReturn(d) ==
    /\ cur = d
    /\ pc \in {"returned", "raised"}
    /\ LET after == IF pc = "raised" THEN AfterException(d)
                    ELSE [block |-> NextBlock(d), result |-> "ok"]
       IN  /\ main_pc' = after.block
           /\ outcome' = [outcome EXCEPT ![d] = after.result]
    /\ pc' = "idle"
    /\ UNCHANGED <<RUN, started, cur, stages, failed, raised>>
    /\ UNCHANGED normVars
    /\ UNCHANGED fsVars
    /\ UNCHANGED tsoVars
    /\ UNCHANGED osmVars

\* ------------------------------------------------------- archive adapters
\* A stage of the try block raised: `except Exception: log; raise`, then the
\* finally clause runs clean_up.
StageFails(stage) ==
    /\ failed' = stage
    /\ pc' = "cleanup"

\* download_*_data: requests.get / raise_for_status may raise before the
\* archive file is opened, the chunked write may raise after it.
Download(a) ==
    /\ cur = a
    /\ pc = "download"
    /\ stages' = Append(stages, "download")
    /\ \E r \in {"ok", "fail_before_write", "fail_mid_write"} :
        /\ zip_exists' = (r # "fail_before_write")
        /\ IF r = "ok" THEN pc' = "extract" /\ failed' = failed
           ELSE StageFails("download")
    /\ UNCHANGED <<cur, raised, extract_exists, extract_entries, absent_columns, written, descriptors>>
    /\ UNCHANGED mainVars
    /\ UNCHANGED normVars
    /\ UNCHANGED tsoVars
    /\ UNCHANGED osmVars

\* extract_zip: zipfile.extractall writes the members into the extraction
\* directory; a bad archive raises with some of the members extracted.
Extract(a) ==
    /\ cur = a
    /\ pc = "extract"
    /\ stages' = Append(stages, "extract")
    /\ \E archive \in ArchiveChoices(a) :
        \/ /\ extract_entries' = archive
           /\ absent_columns' \in AbsentColumnChoices(a)
           /\ pc' = "process"
           /\ failed' = failed
        \/ /\ extract_entries' \in SUBSET archive
           /\ absent_columns' = {}
           /\ StageFails("extract")
    /\ UNCHANGED <<cur, raised, zip_exists, extract_exists, written, descriptors>>
    /\ UNCHANGED mainVars
    /\ UNCHANGED normVars
    /\ UNCHANGED tsoVars
    /\ UNCHANGED osmVars

\* A mutation of ProcessCompleted: a failed write is ignored.
ProcessCompleted_Always(a, n) == TRUE

\* The processing stage returns normally only when every to_csv call
\* completed; otherwise its exception leaves the stage.
ProcessCompleted(a, n) == n = Len(CsvFiles(a))

\* process_*_data: reads its input files (raises if one is missing or lacks
\* a column), builds every table in memory, then writes the CSVs one after
\* another; n is the number of to_csv calls that complete.
Process(a) ==
    /\ cur = a
    /\ pc = "process"
    /\ stages' = Append(stages, "process")
    /\ \E n \in 0..Len(CsvFiles(a)) :
        /\ (n > 0) => (InputFiles(a) \subseteq extract_entries
                        /\ ~SelectionRaises(absent_columns))
        /\ written' = Concat(written, Take(CsvFiles(a), n))
        /\ IF ProcessCompleted(a, n) THEN pc' = "metadata" /\ failed' = failed
           ELSE StageFails("process")
    /\ UNCHANGED <<cur, raised, zip_exists, extract_exists, extract_entries, absent_columns, descriptors>>
    /\ UNCHANGED mainVars
    /\ UNCHANGED normVars
    /\ UNCHANGED tsoVars
    /\ UNCHANGED osmVars

\* generate_metadata of an archive adapter: writes the descriptor, or raises
\* when the file cannot be opened.
Metadata(a) ==
    /\ cur = a
    /\ pc = "metadata"
    /\ stages' = Append(stages, "metadata")
    /\ \/ /\ descriptors' = Append(descriptors,
                                   [name |-> DescriptorName(a), files |-> DescriptorFiles(a)])
          /\ pc' = "cleanup"
          /\ failed' = failed
       \/ /\ descriptors' = descriptors
          /\ StageFails("metadata")
    /\ UNCHANGED <<cur, raised, zip_exists, extract_exists, extract_entries, absent_columns, written>>
    /\ UNCHANGED mainVars
    /\ UNCHANGED normVars
    /\ UNCHANGED tsoVars
    /\ UNCHANGED osmVars

\* ZIP_FILENAME and the name of the extraction directory, both inside the
\* output directory.
ZipFilename(a) ==
    CASE a = "gridkit" -> "gridkit_data.zip"
      [] a = "powerplants" -> "global_power_plants.zip"
      [] a = "cordis" -> "cordis_h2020_projects.zip"

ExtractDirName(a) ==
    CASE a = "gridkit" -> "gridkit_extracted"
      [] a = "powerplants" -> "extracted"
      [] a = "cordis" -> "cordis_extracted"

\* A mutation of CleanUpTargets: clean_up iterates over the output directory
\* instead of the extraction directory.
CleanUpTargets_OutputDir(a, entries) ==
    {<<ZipFilename(a)>>} \cup {<<f>> : f \in Range(CsvFiles(a)) \cup {DescriptorName(a)}}

\* The paths, relative to the output directory, clean_up may unlink:
\* zip_path and the entries of extract_dir.
CleanUpTargets(a, entries) ==
    {<<ZipFilename(a)>>} \cup {<<ExtractDirName(a), e>> : e \in entries}

\* Path.unlink() of an entry of the extraction directory raises when the
\* entry is a directory.
UnlinkRaises(entry) == entry = SubDir

\* clean_up, run by the finally clause: removes the archive, then unlinks the
\* entries of the extraction directory in iterdir order and removes the
\* directory.  An unlink that raises ends clean_up with the entries iterated
\* so far removed, and its exception replaces the one in flight.
CleanUp(a) ==
    /\ cur = a
    /\ pc = "cleanup"
    /\ stages' = Append(stages, "cleanup")
    /\ zip_exists' = FALSE
    /\ IF ~extract_exists
       THEN /\ UNCHANGED <<extract_exists, extract_entries>>
            /\ raised' = failed
       ELSE IF \E e \in extract_entries : UnlinkRaises(e)
       THEN /\ \E removed \in SUBSET {e \in extract_entries : ~UnlinkRaises(e)} :
                  extract_entries' = extract_entries \ removed
            /\ extract_exists' = TRUE
            /\ raised' = "cleanup"
       ELSE /\ extract_entries' = {}
            /\ extract_exists' = FALSE
            /\ raised' = failed
    /\ pc' = IF raised' = "none" THEN "returned" ELSE "raised"
    /\ written' = SelectSeq(written, LAMBDA f : <<f>> \notin CleanUpTargets(a, extract_entries))
    /\ descriptors' =
          SelectSeq(descriptors, LAMBDA d : <<d.name>> \notin CleanUpTargets(a, extract_entries))
    /\ UNCHANGED <<cur, failed, absent_columns>>
    /\ UNCHANGED mainVars
    /\ UNCHANGED normVars
    /\ UNCHANGED tsoVars
    /\ UNCHANGED osmVars

\* ------------------------------------------------------------ TSO adapter
\* A stage of retrieve_and_prepare_tso_network raised:
\* `except Exception: log; raise`; the adapter has no cleanup step.
TsoStageFails(stage) ==
    /\ failed' = stage
    /\ raised' = stage
    /\ pc' = "raised"

\* One iteration of the loops of fetch_tso_network_data that issues a
\* request.  requests.get is not inside a try block: an exception it raises
\* leaves fetch_tso_network_data, and the local list is lost.  After the last
\* iteration the function returns the list.
TsoQuery ==
    /\ cur = "tso"
    /\ pc = "fetch"
    /\ tso_pos <= Len(TsoQueryPairs)
    /\ stages' = IF tso_pos = 1 THEN Append(stages, "fetch") ELSE stages
    /\ LET it == TsoQueryPairs[tso_pos]
       IN  /\ tso_queried' = Append(tso_queried, it)
           /\ \E r \in TsoResponses :
                /\ tso_resp' = r
                /\ IF r.exception
                   THEN /\ interconnections' = <<>>
                        /\ tso_pos' = tso_pos
                        /\ TsoStageFails("fetch")
                   ELSE /\ interconnections' =
                              IF IsConnected(r)
                              THEN Append(interconnections, Interconnection(it[1], it[2]))
                              ELSE interconnections
                        /\ tso_pos' = tso_pos + 1
                        /\ pc' = IF tso_pos' > Len(TsoQueryPairs) THEN "save" ELSE "fetch"
                        /\ UNCHANGED <<failed, raised>>
    /\ UNCHANGED <<cur, tso_csv, tso_nodes, tso_rels>>
    /\ UNCHANGED mainVars
    /\ UNCHANGED normVars
    /\ UNCHANGED fsVars
    /\ UNCHANGED osmVars

\* save_interconnections: pd.DataFrame(data).to_csv writes the raw CSV.
TsoSave ==
    /\ cur = "tso"
    /\ pc = "save"
    /\ stages' = Append(stages, "save")
    /\ \/ /\ tso_csv' = interconnections
          /\ written' = Append(written, TsoRawCsv)
          /\ pc' = "process"
          /\ UNCHANGED <<failed, raised>>
       \/ /\ UNCHANGED <<tso_csv, written>>
          /\ TsoStageFails("save")
    /\ UNCHANGED <<cur, tso_pos, interconnections, tso_queried, tso_resp, tso_nodes, tso_rels>>
    /\ UNCHANGED <<zip_exists, extract_exists, extract_entries, absent_columns, descriptors>>
    /\ UNCHANGED mainVars
    /\ UNCHANGED normVars
    /\ UNCHANGED osmVars

\* process_entsoe_tso_network: pd.read_csv of a CSV without rows (written
\* from an empty list, it has no header either) raises; otherwise both
\* tables are built, then written one after the other; n is the number of
\* to_csv calls that complete.
TsoProcess ==
    /\ cur = "tso"
    /\ pc = "process"
    /\ stages' = Append(stages, "process")
    /\ \E n \in 0..Len(CsvFiles("tso")) :
        /\ (n > 0) => ~ReadCsvRaises(tso_csv)
        /\ written' = Concat(written, Take(CsvFiles("tso"), n))
        /\ tso_nodes' = IF n >= 1 THEN TsoNodes(tso_csv) ELSE tso_nodes
        /\ tso_rels' = IF n >= 2 THEN TsoRelationships(tso_csv) ELSE tso_rels
        /\ IF ProcessCompleted("tso", n)
           THEN pc' = "metadata" /\ UNCHANGED <<failed, raised>>
           ELSE TsoStageFails("process")
    /\ UNCHANGED <<cur, tso_pos, interconnections, tso_queried, tso_resp, tso_csv>>
    /\ UNCHANGED <<zip_exists, extract_exists, extract_entries, absent_columns, descriptors>>
    /\ UNCHANGED mainVars
    /\ UNCHANGED normVars
    /\ UNCHANGED osmVars

\* generate_metadata of the TSO adapter, then the function returns.
TsoMetadata ==
    /\ cur = "tso"
    /\ pc = "metadata"
    /\ stages' = Append(stages, "metadata")
    /\ \/ /\ descriptors' = Append(descriptors,
                                   [name |-> DescriptorName("tso"),
                                    files |-> DescriptorFiles("tso")])
          /\ pc' = "returned"
          /\ UNCHANGED <<failed, raised>>
       \/ /\ descriptors' = descriptors
          /\ TsoStageFails("metadata")
    /\ UNCHANGED <<cur, zip_exists, extract_exists, extract_entries, absent_columns, written>>
    /\ UNCHANGED tsoVars
    /\ UNCHANGED osmVars
    /\ UNCHANGED mainVars
    /\ UNCHANGED normVars

\* ------------------------------------------------------------ OSM stages
\* One iteration of the loops of retrieve_osm_data: fetch_osm_data, then
\* save_geojson when the data is truthy, all inside `try ... except
\* Exception`, which logs and goes on.  After the last iteration
\* retrieve_osm_data returns and main calls prepare_osm_data_for_neo4j.
OsmFetch ==
    /\ cur = "osm"
    /\ pc = "retrieve"
    /\ osm_pos <= Len(OsmPairs)
    /\ stages' = IF osm_pos = 1 THEN Append(stages, "retrieve") ELSE stages
    /\ LET pair == OsmPairs[osm_pos]
       IN  /\ osm_queried' = Append(osm_queried, pair)
           /\ \E result \in OsmResults :
                /\ osm_last' = result
                /\ IF SaveWritesGeojson(result)
                   THEN \E content \in {"no_features", "features"} :
                            geojson' = [geojson EXCEPT ![pair] = content]
                   ELSE geojson' = geojson
                /\ IF OsmCaught(result)
                   THEN /\ osm_pos' = osm_pos + 1
                        /\ pc' = IF osm_pos' > Len(OsmPairs) THEN "prepare" ELSE "retrieve"
                        /\ UNCHANGED <<failed, raised>>
                   ELSE /\ osm_pos' = osm_pos
                        /\ failed' = "retrieve"
                        /\ raised' = "retrieve"
                        /\ pc' = "raised"
    /\ UNCHANGED cur
    /\ UNCHANGED mainVars
    /\ UNCHANGED normVars
    /\ UNCHANGED fsVars
    /\ UNCHANGED tsoVars

\* prepare_osm_data_for_neo4j: loads every GeoJSON file that exists, writes
\* the combined node and relationship CSV of each category, then
\* countries_nodes.csv.  It writes no metadata descriptor.  An exception
\* leaves it for main's `except Exception`.
OsmPrepare ==
    /\ cur = "osm"
    /\ pc = "prepare"
    /\ stages' = Append(stages, "prepare")
    /\ LET combined == OsmCombined(OsmPrepareCategories, geojson)
       IN  IF combined.raises
           THEN /\ written' = Concat(written, combined.files)
                /\ failed' = "prepare"
                /\ raised' = "prepare"
                /\ pc' = "raised"
           ELSE /\ written' = Append(Concat(written, combined.files), OsmCountriesCsv)
                /\ UNCHANGED <<failed, raised>>
                /\ pc' = "returned"
    /\ UNCHANGED <<cur, zip_exists, extract_exists, extract_entries, absent_columns, descriptors>>
    /\ UNCHANGED mainVars
    /\ UNCHANGED normVars
    /\ UNCHANGED tsoVars
    /\ UNCHANGED osmVars

\* ------------------------------------------------------------ normalizers
\* The tables each adapter's processing function builds from its input
\* tables.  A table is a sequence of rows, a row a record of its columns;
\* only the columns that decide selection, deduplication and keys are
\* carried, the others pass through the code unchanged.

\* pandas' missing value.
NaN == "NaN"

\* df[[...]]: the rows of s with the columns cols only.
Columns(s, cols) == [i \in 1..Len(s) |-> [c \in cols |-> s[i][c]]]

\* df.rename(columns=m): the column c is named m[c] when m names it.
Rename(s, m) ==
    [i \in 1..Len(s) |->
        LET renamed(c) == IF c \in DOMAIN m THEN m[c] ELSE c
        IN  [d \in {renamed(c) : c \in DOMAIN s[i]} |->
                s[i][CHOOSE c \in DOMAIN s[i] : renamed(c) = d]]]

\* df[col] = v: every row gets the column col with the value v.
WithColumn(s, col, v) ==
    [i \in 1..Len(s) |-> [c \in DOMAIN s[i] \cup {col} |-> IF c = col THEN v ELSE s[i][c]]]

\* A mutation of DropDuplicatesOn: the last row of each value is kept.
DropDuplicatesOn_KeepLast(s, key) ==
    LET kept[i \in 0..Len(s)] ==
            IF i = 0 THEN <<>>
            ELSE IF \E j \in (i + 1)..Len(s) : s[j][key] = s[i][key] THEN kept[i - 1]
            ELSE Append(kept[i - 1], s[i])
    IN  kept[Len(s)]

\* DataFrame.drop_duplicates(subset=[key]): the first row of each value of
\* the column key is kept.
DropDuplicatesOn(s, key) ==
    LET kept[i \in 0..Len(s)] ==
            IF i = 0 THEN <<>>
            ELSE IF \E j \in 1..(i - 1) : s[j][key] = s[i][key] THEN kept[i - 1]
            ELSE Append(kept[i - 1], s[i])
    IN  kept[Len(s)]

\* DataFrame.dropna(): the rows without a missing value in any column.
DropNa(s) == SelectSeq(s, LAMBDA r : \A c \in DOMAIN r : r[c] # NaN)

\* Sequences over S of at most n elements.
SeqsUpTo(S, n) == UNION {[1..k -> S] : k \in 0..n}

\* --- power plants: process_powerplant_data
\* EU_COUNTRIES_ISO.values()
EU_COUNTRIES_ISO ==
    {"AUT", "BEL", "BGR", "HRV", "CYP", "CZE", "DNK", "EST", "FIN", "FRA", "DEU",
     "GRC", "HUN", "IRL", "ITA", "LVA", "LTU", "LUX", "MLT", "NLD", "POL", "PRT",
     "ROU", "SVK", "SVN", "ESP", "SWE"}

\* A mutation of IsEuCountry: the filter is dropped.
IsEuCountry_Any(country) == TRUE

\* df['country'].isin(EU_COUNTRIES_ISO.values())
IsEuCountry(country) == country \in EU_COUNTRIES_ISO

PowerplantTables(df) ==
    LET df_eu ==
            Columns(Rename(SelectSeq(df, LAMBDA r : IsEuCountry(r.country)),
                           [country |-> "country_iso", name |-> "plant_name",
                            primary_fuel |-> "fuel_type"]),
                    {"plant_name", "country_iso", "fuel_type", "owner"})
    IN  [raised |-> FALSE,
         tables |->
            [powerplants_nodes |->
                DropDuplicatesOn(Columns(df_eu, {"plant_name"}), "plant_name"),
             countries_nodes |-> DropDuplicates(Columns(df_eu, {"country_iso"})),
             owners_nodes |->
                Rename(DropDuplicates(DropNa(Columns(df_eu, {"owner"}))),
                       [owner |-> "name"]),
             fuel_types_nodes |->
                Rename(DropDuplicates(Columns(df_eu, {"fuel_type"})),
                       [fuel_type |-> "type"]),
             located_in_relationships |->
                DropNa(Columns(df_eu, {"plant_name", "country_iso"})),
             owned_by_relationships |-> DropNa(Columns(df_eu, {"plant_name", "owner"})),
             uses_fuel_relationships |->
                DropNa(Columns(df_eu, {"plant_name", "fuel_type"}))]]

\* --- numeric text
\* A text is the sequence of its characters; the missing value of a text
\* column is the text MissingText.
MissingText == <<NaN>>

Digits == {"0", "1", "2", "3", "4", "5", "6", "7", "8", "9"}

DigitValue(c) ==
    CASE c = "0" -> 0 [] c = "1" -> 1 [] c = "2" -> 2 [] c = "3" -> 3 [] c = "4" -> 4
      [] c = "5" -> 5 [] c = "6" -> 6 [] c = "7" -> 7 [] c = "8" -> 8 [] c = "9" -> 9

\* .str.replace(r'[^\d,.]', '', regex=True): every character that is not a
\* digit, a comma or a point is removed.
StripNonNumeric(t) == SelectSeq(t, LAMBDA c : c \in Digits \cup {",", "."})

\* .str.replace(',', '.'): every comma becomes a point.
CommaToPoint(t) == [i \in 1..Len(t) |-> IF t[i] = "," THEN "." ELSE t[i]]

\* str.strip(): the text without its leading and trailing blanks.
RECURSIVE StripBlanks(_)
StripBlanks(t) ==
    IF t = <<>> THEN t
    ELSE IF Head(t) = " " THEN StripBlanks(Tail(t))
    ELSE IF t[Len(t)] = " " THEN StripBlanks(SubSeq(t, 1, Len(t) - 1))
    ELSE t

\* The text without a leading sign.
Unsigned(t) == IF t # <<>> /\ Head(t) \in {"-", "+"} THEN Tail(t) ELSE t

\* Whether float() accepts the text: blanks around it, a sign, then digits
\* with at most one point and at least one digit.  (Exponents, "inf", "nan"
\* and "_" do not occur in the texts given.)
IsFloatText(t) ==
    LET u == Unsigned(StripBlanks(t))
    IN  /\ \A i \in 1..Len(u) : u[i] \in Digits \cup {"."}
        /\ Cardinality({i \in 1..Len(u) : u[i] = "."}) <= 1
        /\ \E i \in 1..Len(u) : u[i] \in Digits

\* The number a sequence of digits writes.
RECURSIVE DigitsValue(_)
DigitsValue(ds) ==
    IF ds = <<>> THEN 0
    ELSE 10 * DigitsValue(SubSeq(ds, 1, Len(ds) - 1)) + DigitValue(ds[Len(ds)])

\* A decimal number mant / 10^exp, without trailing zeros in the fraction.
RECURSIVE Decimal(_, _)
Decimal(mant, exp) ==
    IF exp > 0 /\ mant % 10 = 0 THEN Decimal(mant \div 10, exp - 1)
    ELSE [mant |-> mant, exp |-> exp]

Zero == Decimal(0, 0)

\* float(t), for a text float() accepts.
FloatValue(t) ==
    LET s == StripBlanks(t)
        u == Unsigned(s)
        ds == SelectSeq(u, LAMBDA c : c \in Digits)
        point == IF \E i \in 1..Len(u) : u[i] = "."
                 THEN CHOOSE i \in 1..Len(u) : u[i] = "." ELSE Len(u) + 1
        frac == IF point > Len(u) THEN 0 ELSE Len(u) - point
        sign == IF s # <<>> /\ Head(s) = "-" THEN -1 ELSE 1
    IN  Decimal(sign * DigitsValue(ds), frac)

\* Series.astype(float).fillna(0) on one value: a missing value becomes 0, a
\* text float() accepts its number, and any other text raises ValueError.
AsFloat(t) ==
    IF t = MissingText THEN [raises |-> FALSE, value |-> Zero]
    ELSE IF IsFloatText(t) THEN [raises |-> FALSE, value |-> FloatValue(t)]
    ELSE [raises |-> TRUE, value |-> Zero]

\* The numeric cleaning of ecMaxContribution and totalCost.
CleanAmount(t) ==
    IF t = MissingText THEN AsFloat(t) ELSE AsFloat(CommaToPoint(StripNonNumeric(t)))

\* The numeric cleaning of ecContribution.
CleanContribution(t) ==
    IF t = MissingText THEN AsFloat(t) ELSE AsFloat(CommaToPoint(t))

\* project_nodes[col] = project_nodes[col]...astype(float).fillna(0)
WithCleanAmount(s, col) ==
    [i \in 1..Len(s) |->
        [c \in DOMAIN s[i] |-> IF c = col THEN CleanAmount(s[i][c]).value ELSE s[i][c]]]

\* relationships_participation['ecContribution'] = ...astype(float).fillna(0)
WithCleanContribution(s, col) ==
    [i \in 1..Len(s) |->
        [c \in DOMAIN s[i] |->
            IF c = col THEN CleanContribution(s[i][c]).value ELSE s[i][c]]]

\* --- GridKit: process_gridkit_data
\* Whether float(row['latitude']) or float(row['longitude']) raises: a
\* missing value is the float nan already, any other value is a text.
FloatRaises(t) == t # MissingText /\ ~IsFloatText(t)

\* The outcome of a reverse geocoder search that ends in an exception.
SearchError == "error"

\* get_country(lat, lon): rg[<<lat, lon>>] is what rg.search comes to for the
\* point, a country code or an exception; the nearest-neighbour query of a
\* point with a nan coordinate ends in an exception.
get_country(lat, lon, rg) ==
    IF lat = MissingText \/ lon = MissingText THEN SearchError ELSE rg[<<lat, lon>>]

\* A mutation of assign_country: the exception handler is left out.
assign_country_Unhandled(row, rg) ==
    IF FloatRaises(row.latitude) \/ FloatRaises(row.longitude) THEN SearchError
    ELSE get_country(row.latitude, row.longitude, rg)

\* assign_country(row): any exception of the two conversions or of the search
\* is caught and answered with 'Unknown'.
assign_country(row, rg) ==
    IF FloatRaises(row.latitude) \/ FloatRaises(row.longitude) THEN "Unknown"
    ELSE IF get_country(row.latitude, row.longitude, rg) = SearchError THEN "Unknown"
    ELSE get_country(row.latitude, row.longitude, rg)

GridkitTables(vertices, links, rg) ==
    LET nodes_df ==
            Columns(Rename(vertices, [v_id |-> "id", typ |-> "type", lat |-> "latitude",
                                      lon |-> "longitude"]),
                    {"id", "longitude", "latitude", "type"})
    IN  [raised |-> FALSE,
         tables |->
            [grid_nodes |->
                [i \in 1..Len(nodes_df) |->
                    [c \in DOMAIN nodes_df[i] \cup {"country"} |->
                        IF c = "country" THEN assign_country(nodes_df[i], rg)
                        ELSE nodes_df[i][c]]],
             connected_to_relationships |->
                WithColumn(Columns(Rename(links, [v_id_1 |-> "source", v_id_2 |-> "target"]),
                                   {"source", "target"}),
                           "type", "CONNECTED_TO")]]

\* --- CORDIS: process_cordis_data
\* A date text "y-m-d" is carried as <<y, m, d>>.
DaysInMonth(y, m) ==
    IF m \in {4, 6, 9, 11} THEN 30
    ELSE IF m # 2 THEN 31
    ELSE IF (y % 4 = 0 /\ y % 100 # 0) \/ y % 400 = 0 THEN 29
    ELSE 28

\* A mutation of IsDate: the month is not checked.
IsDate_MonthUnchecked(t) == t[3] >= 1 /\ t[3] <= DaysInMonth(t[1], t[2])

\* pd.to_datetime(..., format='%Y-%m-%d', errors='coerce') gives a date, and
\* not NaT, exactly for a calendar date.
IsDate(t) == t[2] \in 1..12 /\ t[3] >= 1 /\ t[3] <= DaysInMonth(t[1], t[2])

\* Whether a numeric cleaning raises on some row.
CleaningRaises(projects_df, org_df) ==
    \/ \E i \in 1..Len(projects_df) :
        \/ CleanAmount(projects_df[i].ecMaxContribution).raises
        \/ CleanAmount(projects_df[i].totalCost).raises
    \/ \E i \in 1..Len(org_df) : CleanContribution(org_df[i].ecContribution).raises

\* Every table is built in memory before the first to_csv call, so a run
\* that raises while building them writes no table.
CordisTables(projects_df, org_df, topics_df, legal_basis_df, absent) ==
    IF SelectionRaises(absent) \/ CleaningRaises(projects_df, org_df)
    THEN [raised |-> TRUE, tables |-> [none |-> <<>>]]
    ELSE
    [raised |-> FALSE,
     tables |->
        [projects_nodes |->
            WithColumn(
                SelectSeq(
                    WithCleanAmount(
                        WithCleanAmount(
                            Rename(Columns(projects_df,
                                           {"id", "startDate", "endDate",
                                            "ecMaxContribution", "totalCost"}),
                                   [id |-> "projectId"]),
                            "ecMaxContribution"),
                        "totalCost"),
                    LAMBDA r : IsDate(r.startDate) /\ IsDate(r.endDate)),
                "label", "Project"),
         organizations_nodes |->
            WithColumn(Rename(Columns(org_df, {"organisationID"}),
                              [organisationID |-> "organizationId"]),
                       "label", "Organization"),
         topics_nodes |->
            WithColumn(Rename(DropDuplicates(Columns(topics_df, {"topic", "title"})),
                              [topic |-> "topicId", title |-> "topicTitle"]),
                       "label", "Topic"),
         legal_basis_nodes |->
            WithColumn(Rename(DropDuplicates(Columns(legal_basis_df, {"legalBasis", "title"})),
                              [legalBasis |-> "legalBasisId", title |-> "legalBasisTitle"]),
                       "label", "LegalBasis"),
         participated_in_relationships |->
            WithCleanContribution(
                Rename(Columns(org_df, {"projectID", "organisationID", "ecContribution"}),
                       [projectID |-> "projectId", organisationID |-> "organizationId"]),
                "ecContribution"),
         has_topic_relationships |->
            Rename(Columns(topics_df, {"projectID", "topic"}),
                   [projectID |-> "projectId", topic |-> "topicId"]),
         has_legalbasis_relationships |->
            Rename(Columns(legal_basis_df, {"projectID", "legalBasis"}),
                   [projectID |-> "projectId", legalBasis |-> "legalBasisId"])]]

\* --- OSM: prepare_osm_data_for_neo4j, for one category
\* geojson_to_df: one row per feature of the file, ids being the osm_id of
\* each feature.
geojson_to_df(ids, country_name) ==
    [i \in 1..Len(ids) |-> [osm_id |-> ids[i], country |-> country_name]]

\* files[country] is the GeoJSON file of the country: whether it exists and
\* the osm_id of each of its features.  The data frames of the files that
\* exist, in the order of countries.
RECURSIVE OsmFrames(_, _)

\* A mutation of OsmFrames: the loop ends at the first missing file.
OsmFrames_StopAtMissing(countries, files) ==
    IF countries = <<>> THEN <<>>
    ELSE LET c == Head(countries)
         IN  IF files[c].exists
             THEN <<geojson_to_df(files[c].ids, c)>> \o OsmFrames(Tail(countries), files)
             ELSE <<>>

OsmFrames(countries, files) ==
    IF countries = <<>> THEN <<>>
    ELSE LET c == Head(countries)
             rest == OsmFrames(Tail(countries), files)
         IN  IF files[c].exists THEN <<geojson_to_df(files[c].ids, c)>> \o rest
             ELSE rest

\* pd.concat(dfs, ignore_index=True)
RECURSIVE ConcatAll(_)
ConcatAll(dfs) == IF dfs = <<>> THEN <<>> ELSE Head(dfs) \o ConcatAll(Tail(dfs))

\* `if dfs:` skips a category without any file; the concatenation of data
\* frames that are all empty has no osm_id column, and drop_duplicates raises
\* before countries_nodes.csv is written.
OsmTables(countries, files) ==
    LET dfs == OsmFrames(countries, files)
        combined_df == DropDuplicatesOn(ConcatAll(dfs), "osm_id")
        countries_nodes ==
            DropDuplicates([i \in 1..Len(countries) |-> [country_name |-> countries[i]]])
    IN  IF dfs = <<>>
        THEN [raised |-> FALSE, tables |-> [countries_nodes |-> countries_nodes]]
        ELSE IF ConcatAll(dfs) = <<>>
        THEN [raised |-> TRUE, tables |-> [none |-> <<>>]]
        ELSE [raised |-> FALSE,
              tables |->
                [nodes |-> combined_df,
                 located_in_relationships |->
                    Rename(Columns(combined_df, {"osm_id", "country"}),
                           [osm_id |-> "source_id", country |-> "target_country"]),
                 countries_nodes |-> countries_nodes]]

\* --- TSO: process_entsoe_tso_network
\* pd.read_csv of the CSV of an empty list raises.
TsoTables(rows) ==
    IF ReadCsvRaises(rows) THEN [raised |-> TRUE, tables |-> [none |-> <<>>]]
    ELSE [raised |-> FALSE,
          tables |-> [tso_nodes |-> TsoNodes(rows),
                      interconnected_with_relationships |-> TsoRelationships(rows)]]

\* --- the inputs the normalizers are run on
\* Coordinate texts: "52.5", "48.1", "13.4" and "n/a".
Latitude == <<"5", "2", ".", "5">>
OtherLatitude == <<"4", "8", ".", "1">>
Longitude == <<"1", "3", ".", "4">>
WordCoordinate == <<"n", "/", "a">>

\* What the reverse geocoder comes to for each point it can be asked.
Geocoders == [{<<Latitude, Longitude>>, <<OtherLatitude, Longitude>>} -> {"DE", SearchError}]

VertexRows ==
    [v_id : {"1", "2"}, typ : {"substation", "joint"}, lat : {Latitude}, lon : {Longitude}]
VertexCoordinateRows ==
    [v_id : {"1", "2"}, typ : {"substation"},
     lat : {Latitude, OtherLatitude, WordCoordinate, MissingText},
     lon : {Longitude, MissingText}]
LinkRows == [v_id_1 : {"1", "2"}, v_id_2 : {"1", "2"}]
PlantRows ==
    [name : {"Plant A", "Plant B"}, country : {"DEU", "USA", "FRA"},
     owner : {"Owner A", NaN}, primary_fuel : {"Gas", "Coal"}]
\* Amount texts: "12", "1234,56", "1.234,56", "EUR 12", "abc".
PlainAmount == <<"1", "2">>
CommaAmount == <<"1", "2", "3", "4", ",", "5", "6">>
LocaleAmount == <<"1", ".", "2", "3", "4", ",", "5", "6">>
CurrencyAmount == <<"E", "U", "R", " ", "1", "2">>
WordAmount == <<"a", "b", "c">>
AmountTexts ==
    {PlainAmount, CommaAmount, LocaleAmount, CurrencyAmount, WordAmount, MissingText}

\* Date texts "2020-01-15", "2021-12-31", "2020-13-01", "2021-02-29".
ValidDate == <<2020, 1, 15>>
ValidEndDate == <<2021, 12, 31>>
InvalidMonthDate == <<2020, 13, 1>>
InvalidDayDate == <<2021, 2, 29>>
InvalidDates == {InvalidMonthDate, InvalidDayDate}

ProjectRows ==
    [id : {"101", "102"}, startDate : {ValidDate, InvalidMonthDate},
     endDate : {ValidEndDate, InvalidDayDate}, ecMaxContribution : {PlainAmount},
     totalCost : {PlainAmount}]
ProjectAmountRows ==
    [id : {"101", "102"}, startDate : {ValidDate}, endDate : {ValidEndDate},
     ecMaxContribution : AmountTexts, totalCost : {PlainAmount, WordAmount}]
OrganizationRows ==
    [organisationID : {"9001", "9002"}, projectID : {"101"},
     ecContribution : {PlainAmount}]
OrganizationAmountRows ==
    [organisationID : {"9001", "9002"}, projectID : {"101"},
     ecContribution : AmountTexts]
TopicRows == [projectID : {"101"}, topic : {"T1"}, title : {"a", "b"}]
LegalBasisRows == [projectID : {"101"}, legalBasis : {"L1"}, title : {"a", "b"}]

\* One well-formed row of each CORDIS file.
OneProject ==
    <<[id |-> "101", startDate |-> ValidDate, endDate |-> ValidEndDate,
       ecMaxContribution |-> PlainAmount, totalCost |-> PlainAmount]>>
OneOrganization ==
    <<[organisationID |-> "9001", projectID |-> "101", ecContribution |-> PlainAmount]>>
OneTopic == <<[projectID |-> "101", topic |-> "T1", title |-> "a"]>>
OneLegalBasis == <<[projectID |-> "101", legalBasis |-> "L1", title |-> "a"]>>

\* The inputs of process_cordis_data: rows varying in one file or two at a
\* time, the other files holding one well-formed row.
CordisInputs ==
    [adapter : {"cordis"}, projects_df : SeqsUpTo(ProjectRows, MaxRows),
     org_df : SeqsUpTo(OrganizationRows, MaxRows), topics_df : {OneTopic},
     legal_basis_df : {OneLegalBasis}, absent : {{}}]
    \cup [adapter : {"cordis"}, projects_df : {OneProject}, org_df : {OneOrganization},
          topics_df : SeqsUpTo(TopicRows, MaxRows),
          legal_basis_df : SeqsUpTo(LegalBasisRows, MaxRows), absent : {{}}]
    \cup [adapter : {"cordis"}, projects_df : SeqsUpTo(ProjectAmountRows, MaxRows),
          org_df : {OneOrganization}, topics_df : {OneTopic},
          legal_basis_df : {OneLegalBasis}, absent : {{}}]
    \cup [adapter : {"cordis"}, projects_df : {OneProject},
          org_df : SeqsUpTo(OrganizationAmountRows, MaxRows), topics_df : {OneTopic},
          legal_basis_df : {OneLegalBasis}, absent : {{}}]
    \cup [adapter : {"cordis"}, projects_df : {OneProject}, org_df : {OneOrganization},
          topics_df : {OneTopic}, legal_basis_df : {OneLegalBasis},
          absent : {{fc} : fc \in AbsentChoices}]

GeojsonFiles == [exists : {FALSE}, ids : {<<>>}] \cup [exists : {TRUE}, ids : SeqsUpTo({7, 8}, MaxRows)]

\* The `countries` argument of prepare_osm_data_for_neo4j: the countries of
\* the fetch stage, or a list that names one of them twice.
OsmCountryLists == {OsmCountries, Append(OsmCountries, Head(OsmCountries))}

\* The lists fetch_tso_network_data can return: the requested pairs, in
\* order, each recorded or not.
SweepResults ==
    {SelectSeq([k \in 1..Len(TsoQueryPairs) |->
                    Interconnection(TsoQueryPairs[k][1], TsoQueryPairs[k][2])],
               LAMBDA r : <<r.tso_from, r.tso_to>> \in S) :
        S \in SUBSET {<<it[1][1], it[2][1]>> : it \in Range(TsoQueryPairs)}}

NormInputs ==
    [adapter : {"gridkit"}, vertices : SeqsUpTo(VertexRows, MaxRows),
     links : SeqsUpTo(LinkRows, MaxRows), rg : Geocoders]
    \cup [adapter : {"gridkit"}, vertices : SeqsUpTo(VertexCoordinateRows, MaxRows),
          links : {<<>>}, rg : Geocoders]
    \cup [adapter : {"powerplants"}, df : SeqsUpTo(PlantRows, MaxRows)]
    \cup CordisInputs
    \cup [adapter : {"osm"}, countries : OsmCountryLists,
          files : [Range(OsmCountries) -> GeojsonFiles]]
    \cup [adapter : {"tso"}, rows : SweepResults]

Normalized(result) == [done |-> TRUE, raised |-> result.raised, tables |-> result.tables]

controlVars == <<RUN, main_pc, started, outcome, cur, pc, stages, failed, raised,
                 zip_exists, extract_exists, extract_entries, absent_columns, written, descriptors,
                 tso_pos, interconnections, tso_queried, tso_resp, tso_csv,
                 tso_nodes, tso_rels, osm_pos, osm_queried, osm_last, geojson>>

NormalizeGridkit ==
    /\ norm_in.adapter = "gridkit"
    /\ ~norm_out.done
    /\ norm_out' = Normalized(GridkitTables(norm_in.vertices, norm_in.links, norm_in.rg))
    /\ UNCHANGED <<norm_in, controlVars>>

NormalizePowerplants ==
    /\ norm_in.adapter = "powerplants"
    /\ ~norm_out.done
    /\ norm_out' = Normalized(PowerplantTables(norm_in.df))
    /\ UNCHANGED <<norm_in, controlVars>>

NormalizeCordis ==
    /\ norm_in.adapter = "cordis"
    /\ ~norm_out.done
    /\ norm_out' = Normalized(CordisTables(norm_in.projects_df, norm_in.org_df,
                                           norm_in.topics_df, norm_in.legal_basis_df,
                                           norm_in.absent))
    /\ UNCHANGED <<norm_in, controlVars>>

NormalizeOsm ==
    /\ norm_in.adapter = "osm"
    /\ ~norm_out.done
    /\ norm_out' = Normalized(OsmTables(norm_in.countries, norm_in.files))
    /\ UNCHANGED <<norm_in, controlVars>>

NormalizeTso ==
    /\ norm_in.adapter = "tso"
    /\ ~norm_out.done
    /\ norm_out' = Normalized(TsoTables(norm_in.rows))
    /\ UNCHANGED <<norm_in, controlVars>>

\* A processing function is given its input tables and run once.
InitNorm ==
    /\ RUN = [d \in Datasets |-> FALSE]
    /\ Idle
    /\ norm_in \in NormInputs
    /\ norm_out = NotNormalized

NextNorm ==
    \/ NormalizeGridkit
    \/ NormalizePowerplants
    \/ NormalizeCordis
    \/ NormalizeOsm
    \/ NormalizeTso

SpecNorm == InitNorm /\ [][NextNorm]_vars

Next ==
    \/ \E d \in Datasets : MainSkip(d)
    \/ \E d \in Datasets : MainCall(d)
    \/ \E d \in Datasets : MainReturn(d)
    \/ \E a \in ArchiveAdapters : Download(a)
    \/ \E a \in ArchiveAdapters : Extract(a)
    \/ \E a \in ArchiveAdapters : Process(a)
    \/ \E a \in ArchiveAdapters : Metadata(a)
    \/ \E a \in ArchiveAdapters : CleanUp(a)
    \/ TsoQuery
    \/ TsoSave
    \/ TsoProcess
    \/ TsoMetadata
    \/ OsmFetch
    \/ OsmPrepare

Spec == Init /\ [][Next]_vars

\* ================================================================ claims
\* The stages of each retrieve_and_prepare_* function, in the order of its
\* try block.
StageOrder(a) ==
    IF a \in ArchiveAdapters THEN <<"download", "extract", "process", "metadata">>
    ELSE <<"fetch", "save", "process", "metadata">>

Finished == pc \in {"returned", "raised"}

\* C1: for the GridKit, power plants and CORDIS adapters, when the call has
\* returned or raised, whatever the archive held, neither the staging
\* archive file nor the staging extraction directory exists.
C1_StagingRemoved ==
    (cur \in ArchiveAdapters /\ Finished) => (~zip_exists /\ ~extract_exists)

\* C2: for every retrieve_and_prepare_* function, when a stage raised, no
\* later stage was executed, the cleanup step (where there is one) ran, and
\* the caller receives the error of that stage.
C2_OriginalErrorReRaised ==
    (cur \in (Datasets \ {"osm"}) /\ Finished /\ failed # "none") =>
        /\ pc = "raised"
        /\ raised = failed
        /\ stages = Concat(Take(StageOrder(cur), IndexOf(StageOrder(cur), failed)),
                           IF cur \in ArchiveAdapters THEN <<"cleanup">> ELSE <<>>)

\* The blocks of main before block b (all of them once main has completed).
BlocksBefore(b) ==
    IF b \in Datasets THEN Take(Order, IndexOf(Order, b) - 1) ELSE Order

\* C3: main starts every enabled pipeline exactly once, in the order OSM,
\* GridKit, power plants, TSO, CORDIS, each after the previous one has
\* finished; an exception of a pipeline is caught, the later enabled
\* pipelines still run, and main reaches its completion step.
C3_MainRunsEveryEnabledPipeline ==
    /\ started = SelectSeq(IF pc = "idle" THEN BlocksBefore(main_pc)
                           ELSE Append(BlocksBefore(main_pc), main_pc),
                           LAMBDA d : RUN[d])
    /\ pc # "idle" => (cur = main_pc /\ outcome[cur] = "not_run")
    /\ \A d \in Datasets :
        (d \in Range(started) /\ ~(pc # "idle" /\ d = cur))
            <=> outcome[d] \in {"ok", "caught"}
    /\ main_pc = "completed" => started = SelectSeq(Order, LAMBDA d : RUN[d])
    /\ main_pc # "completed" => ENABLED Next

\* C3, witness: main has completed, having caught the exception of one
\* pipeline and run two later ones, one of which also raised.
C3_Witness ==
    /\ main_pc = "completed"
    /\ outcome["gridkit"] = "caught"
    /\ outcome["tso"] = "ok"
    /\ outcome["cordis"] = "caught"
    /\ started = Order

\* The node and relationship CSVs an adapter's run is to write.
AllCsv(a) ==
    IF a = "osm"
    THEN {OsmNodesCsv(c) : c \in ModelledCategories}
         \cup {OsmRelationshipsCsv(c) : c \in ModelledCategories}
         \cup {OsmCountriesCsv}
    ELSE Range(CsvFiles(a))

\* C4: for every adapter (OSM included), after a successful run the output
\* directory holds every node/relationship CSV of the adapter and exactly
\* one metadata descriptor.
C4_EveryAdapterWritesDescriptor ==
    (cur \in Datasets /\ pc = "returned") =>
        (AllCsv(cur) \subseteq Range(written) /\ Len(descriptors) = 1)

\* What the four adapters with a generate_metadata keep of it: after a
\* successful run the output directory holds every CSV and exactly one
\* descriptor; the descriptor is written at most once, only when every CSV
\* has been written, and not at all when an earlier stage failed.  The OSM
\* stages write no descriptor into the output directory.
DescriptorAfterCsvs ==
    /\ (cur \in (Datasets \ {"osm"}) /\ pc = "returned") =>
           (AllCsv(cur) \subseteq Range(written) /\ Len(descriptors) = 1)
    /\ Len(descriptors) <= 1
    /\ NoRepeats(written)
    /\ descriptors # <<>> =>
           /\ cur \in (Datasets \ {"osm"})
           /\ descriptors[1].name = DescriptorName(cur)
           /\ AllCsv(cur) \subseteq Range(written)
           /\ failed = "none"
    /\ (cur # "none" /\ failed \in {"download", "extract", "fetch", "save", "process", "metadata"}) =>
           descriptors = <<>>
    /\ cur = "osm" => descriptors = <<>>

\* A CORDIS run has returned with its seven CSVs and its
\* descriptor written.
DescriptorWritten ==
    /\ cur = "cordis"
    /\ pc = "returned"
    /\ Len(written) = 7
    /\ Len(descriptors) = 1

\* C5: after a successful run of an adapter, the CSV file names under the
\* descriptor's "files" key are exactly the CSV files the run wrote into the
\* output directory.
C5_FilesListWrittenCsvs ==
    (cur \in (Datasets \ {"osm"}) /\ pc = "returned") =>
        (descriptors # <<>> /\ descriptors[1].files = Range(written))

\* The node tables of each adapter, with their natural-key column.
NodeKeys(a) ==
    CASE a = "osm" -> {<<"nodes", "osm_id">>, <<"countries_nodes", "country_name">>}
      [] a = "gridkit" -> {<<"grid_nodes", "id">>}
      [] a = "powerplants" -> {<<"powerplants_nodes", "plant_name">>,
                               <<"countries_nodes", "country_iso">>,
                               <<"owners_nodes", "name">>, <<"fuel_types_nodes", "type">>}
      [] a = "tso" -> {<<"tso_nodes", "area_code">>}
      [] a = "cordis" -> {<<"projects_nodes", "projectId">>,
                          <<"organizations_nodes", "organizationId">>,
                          <<"topics_nodes", "topicId">>,
                          <<"legal_basis_nodes", "legalBasisId">>}

UniqueKey(table, key) ==
    \A i, j \in 1..Len(table) : table[i][key] = table[j][key] => i = j

\* C6: for every adapter and every input on which the run succeeds, no node
\* table has two rows with the same value in its natural-key column.
C6_NodeKeysUnique ==
    (norm_out.done /\ ~norm_out.raised) =>
        \A tk \in NodeKeys(norm_in.adapter) :
            tk[1] \in DOMAIN norm_out.tables => UniqueKey(norm_out.tables[tk[1]], tk[2])

\* C7: in the TSO sweep a request that fails, by a non-200 response or by an
\* exception, leaves the recorded pairs as they are and the sweep going (or
\* complete): it omits the pair and is not fatal.
C7_PairFailureNotFatal ==
    [][(cur = "tso" /\ pc = "fetch" /\ tso_queried' # tso_queried
           /\ (tso_resp'.exception \/ tso_resp'.status # HttpOk))
       => (interconnections' = interconnections
           /\ pc' \in {"fetch", "save"}
           /\ failed' = "none")]_vars

\* The OSM iterations that failed.
OsmFailures ==
    {"fetch_exception", "non200", "save_exception_before_write",
     "save_exception_after_write"}

OsmLastPair == osm_queried[Len(osm_queried)]

\* retrieve_osm_data queries the pairs in order, each once, and has queried
\* all of them when it is over.
OsmEveryPairOnce ==
    /\ NoRepeats(OsmPairs)
    /\ Range(OsmPairs) = Range(OsmCountries) \X ModelledCategories
    /\ cur = "osm" =>
        /\ osm_queried = Take(OsmPairs, Len(osm_queried))
        /\ pc # "retrieve" => osm_queried = OsmPairs
        /\ failed # "retrieve"

\* C8 as stated: every pair is queried once, and an iteration that fails (a
\* non-200 response, or any exception in fetching or saving) writes no
\* GeoJSON for its pair and does not stop retrieve_osm_data.
C8_FailureWritesNoGeojson ==
    /\ OsmEveryPairOnce
    /\ (cur = "osm" /\ osm_queried # <<>> /\ osm_last \in OsmFailures) =>
           geojson[OsmLastPair] = "absent"

\* C8, amended: every pair is queried once and no failure stops
\* retrieve_osm_data; an iteration that fails before save_geojson has
\* written the GeoJSON file (non-200 response, exception in fetching, in
\* building the features or in opening the file) writes no GeoJSON for its
\* pair, and one that fails after that write (while writing the sidecar
\* metadata) leaves the GeoJSON file of its pair in place.
C8_FailureBeforeWriteWritesNoGeojson ==
    /\ OsmEveryPairOnce
    /\ (cur = "osm" /\ osm_queried # <<>>) =>
        /\ osm_last \in (OsmFailures \ {"save_exception_after_write"}) =>
               geojson[OsmLastPair] = "absent"
        /\ osm_last = "save_exception_after_write" =>
               geojson[OsmLastPair] # "absent"

\* C8, witness: retrieve_osm_data is over, an iteration before the last one
\* wrote its GeoJSON, and the last iteration failed by an exception in
\* save_geojson before the write, leaving no GeoJSON for its pair.
C8_Witness ==
    /\ cur = "osm"
    /\ pc = "prepare"
    /\ osm_queried = OsmPairs
    /\ osm_last = "save_exception_before_write"
    /\ geojson[OsmLastPair] = "absent"
    /\ geojson[OsmPairs[1]] = "features"

\* C9: no recorded interconnection, no row of the raw CSV and no row of the
\* relationship table has the same area as source and target.
C9_NoSelfPair ==
    /\ \A i \in 1..Len(interconnections) :
        /\ interconnections[i].from_area_code # interconnections[i].to_area_code
        /\ interconnections[i].tso_from # interconnections[i].tso_to
    /\ \A i \in 1..Len(tso_csv) : tso_csv[i].tso_from # tso_csv[i].tso_to
    /\ \A i \in 1..Len(tso_rels) : tso_rels[i].source_country # tso_rels[i].target_country

\* C9, witness: a TSO run has returned with both directions of a pair in
\* the relationship table.
C9_Witness ==
    /\ cur = "tso"
    /\ pc = "returned"
    /\ Len(tso_rels) >= 2
    /\ tso_rels[1].source_country = tso_rels[2].target_country

\* The ordered pairs of distinct entries of TSO_CODES (of the modelled ones).
OrderedPairs == {p \in Range(TsoItems) \X Range(TsoItems) : p[1][2] # p[2][2]}

\* C10: once the sweep is over every ordered pair of distinct area codes
\* has been queried exactly once; a pair is recorded only when its response
\* has status 200 and a payload of more than 500 bytes.
C10_EveryPairQueriedOnce ==
    /\ (cur = "tso" /\ pc # "fetch") =>
        /\ Range(tso_queried) = OrderedPairs
        /\ Len(tso_queried) = Cardinality(OrderedPairs)
    /\ (cur = "tso" /\ tso_queried # <<>>) =>
        LET it == tso_queried[Len(tso_queried)]
        IN  Interconnection(it[1], it[2]) \in Range(interconnections)
               <=> (tso_resp.status = 200 /\ tso_resp.len > 500)

\* A column of a table, as the sequence of its values.
Column(table, col) == [i \in 1..Len(table) |-> table[i][col]]

CordisDone == norm_out.done /\ norm_in.adapter = "cordis"

\* A text written with "." between groups of digits and one "," before the
\* decimals.
IsLocaleFormatted(t) ==
    /\ t # MissingText
    /\ \A i \in 1..Len(t) : t[i] \in Digits \cup {",", "."}
    /\ Cardinality({i \in 1..Len(t) : t[i] = ","}) = 1
    /\ \E i \in 1..Len(t) : t[i] = "."
    /\ \A i, j \in 1..Len(t) : (t[i] = "." /\ t[j] = ",") => i < j

\* The number such a text writes: the points separate thousands, the comma
\* the decimals.
LocaleValue(t) == FloatValue(CommaToPoint(SelectSeq(t, LAMBDA c : c # ".")))

\* C11: a project whose ecMaxContribution is written with "." as thousands
\* separator and "," as decimal separator gets that number in projects_nodes;
\* "1.234,56" becomes 1234.56.
C11_LocaleAmountCoerced ==
    /\ LocaleValue(LocaleAmount) = Decimal(123456, 2)
    /\ CordisDone =>
        \A i \in 1..Len(norm_in.projects_df) :
            LET r == norm_in.projects_df[i]
            IN  (IsLocaleFormatted(r.ecMaxContribution)
                    /\ r.startDate \notin InvalidDates /\ r.endDate \notin InvalidDates)
                => /\ ~norm_out.raised
                   /\ \E j \in 1..Len(norm_out.tables.projects_nodes) :
                        /\ norm_out.tables.projects_nodes[j].projectId = r.id
                        /\ norm_out.tables.projects_nodes[j].ecMaxContribution
                              = LocaleValue(r.ecMaxContribution)

\* A text that is not a number: it has no digit.
HasNoDigit(t) == t # MissingText /\ \A i \in 1..Len(t) : t[i] \notin Digits

\* C12: a contribution or cost text that cannot be parsed as a number never
\* makes process_cordis_data raise; its row is kept, with the value zero.
C12_UnparseableAmountIsZero ==
    (CordisDone /\ norm_in.absent = {}) =>
        /\ ~norm_out.raised
        /\ \A i \in 1..Len(norm_in.projects_df) :
            LET r == norm_in.projects_df[i]
            IN  (r.startDate \notin InvalidDates /\ r.endDate \notin InvalidDates) =>
                    \E j \in 1..Len(norm_out.tables.projects_nodes) :
                        LET o == norm_out.tables.projects_nodes[j]
                        IN  /\ o.projectId = r.id
                            /\ HasNoDigit(r.ecMaxContribution) => o.ecMaxContribution = Zero
                            /\ HasNoDigit(r.totalCost) => o.totalCost = Zero
        /\ Len(norm_out.tables.participated_in_relationships) = Len(norm_in.org_df)
        /\ \A i \in 1..Len(norm_in.org_df) :
            HasNoDigit(norm_in.org_df[i].ecContribution) =>
                norm_out.tables.participated_in_relationships[i].ecContribution = Zero

\* The project rows with two valid dates.
DatedProjects ==
    SelectSeq(norm_in.projects_df,
              LAMBDA r : r.startDate \notin InvalidDates /\ r.endDate \notin InvalidDates)

\* The ids of the projects all of whose rows have an invalid date.
DroppedProjects ==
    {norm_in.projects_df[i].id : i \in 1..Len(norm_in.projects_df)}
        \ Range(Column(DatedProjects, "id"))

\* C13: a project row whose startDate or endDate is not a calendar date is
\* dropped: its project is in none of the written tables, and the other
\* project rows are written unaffected.
C13_InvalidDateRowInNoTable ==
    (CordisDone /\ ~norm_out.raised) =>
        /\ Column(norm_out.tables.projects_nodes, "projectId") = Column(DatedProjects, "id")
        /\ \A t \in {"projects_nodes", "participated_in_relationships",
                     "has_topic_relationships", "has_legalbasis_relationships"} :
            Range(Column(norm_out.tables[t], "projectId")) \cap DroppedProjects = {}

\* C13, amended: such a row is dropped from projects_nodes and not coerced;
\* the other project rows are written in their order with their dates; the
\* three relationship tables keep one row per input row, those naming a
\* dropped project included.
C13_InvalidDateRowNotInProjects ==
    (CordisDone /\ ~norm_out.raised) =>
        /\ Column(norm_out.tables.projects_nodes, "projectId") = Column(DatedProjects, "id")
        /\ Column(norm_out.tables.projects_nodes, "startDate")
              = Column(DatedProjects, "startDate")
        /\ Column(norm_out.tables.projects_nodes, "endDate") = Column(DatedProjects, "endDate")
        /\ Column(norm_out.tables.participated_in_relationships, "projectId")
              = Column(norm_in.org_df, "projectID")
        /\ Column(norm_out.tables.has_topic_relationships, "projectId")
              = Column(norm_in.topics_df, "projectID")
        /\ Column(norm_out.tables.has_legalbasis_relationships, "projectId")
              = Column(norm_in.legal_basis_df, "projectID")

\* C13, witness: of two project rows the one with startDate "2020-13-01" was
\* dropped and the other written, and a participation of the dropped project
\* was written.
C13_Witness ==
    /\ CordisDone
    /\ ~norm_out.raised
    /\ Len(norm_in.projects_df) = 2
    /\ norm_in.projects_df[1].id = "101"
    /\ norm_in.projects_df[1].startDate = InvalidMonthDate
    /\ Column(norm_out.tables.projects_nodes, "projectId") = <<"102">>
    /\ "101" \in Range(Column(norm_out.tables.participated_in_relationships, "projectId"))


\* C14: when an input file of the CORDIS adapter lacks a selected column,
\* process_cordis_data raises before any CSV is written, no descriptor is
\* written, the stage is entered once only, and the run raises to main, which
\* has started the pipeline once.
C14_MissingColumnAbortsBeforeOutput ==
    (cur = "cordis" /\ "process" \in Range(stages)
        /\ \E fc \in absent_columns : fc[2] \in UsedColumns(fc[1])) =>
        /\ written = <<>>
        /\ descriptors = <<>>
        /\ failed = "process"
        /\ "metadata" \notin Range(stages)
        /\ Cardinality({k \in 1..Len(stages) : stages[k] = "process"}) = 1
        /\ Finished => pc = "raised"
        /\ pc = "idle" => outcome["cordis"] = "caught"
        /\ NoRepeats(started)

\* C14, witness: a CORDIS run whose topics.csv lacks the title column has
\* raised, with nothing written.
C14_Witness ==
    /\ cur = "cordis"
    /\ pc = "raised"
    /\ absent_columns = {<<"topics.csv", "title">>}
    /\ failed = "process"
    /\ written = <<>>

\* The rows of the power plant database whose country is one of the 27 EU
\* codes.
EuPlants == SelectSeq(norm_in.df, LAMBDA r : r.country \in EU_COUNTRIES_ISO)

\* C15: the output tables of the power plants normalizer are made of the
\* source rows with an EU country code and of no other row: a row with
\* country "USA" contributes to no table, a row with country "DEU" is in.
C15_OnlyEuRows ==
    /\ "DEU" \in EU_COUNTRIES_ISO /\ "USA" \notin EU_COUNTRIES_ISO
    /\ Cardinality(EU_COUNTRIES_ISO) = 27
    /\ (norm_out.done /\ norm_in.adapter = "powerplants") =>
        LET t == norm_out.tables
            owned == SelectSeq(EuPlants, LAMBDA r : r.owner # NaN)
        IN  /\ ~norm_out.raised
            /\ Range(Column(t.powerplants_nodes, "plant_name")) = Range(Column(EuPlants, "name"))
            /\ Range(Column(t.countries_nodes, "country_iso"))
                  = Range(Column(EuPlants, "country"))
            /\ Range(Column(t.owners_nodes, "name")) = Range(Column(owned, "owner"))
            /\ Range(Column(t.fuel_types_nodes, "type"))
                  = Range(Column(EuPlants, "primary_fuel"))
            /\ Column(t.located_in_relationships, "plant_name") = Column(EuPlants, "name")
            /\ Column(t.located_in_relationships, "country_iso")
                  = Column(EuPlants, "country")
            /\ Column(t.owned_by_relationships, "plant_name") = Column(owned, "name")
            /\ Column(t.owned_by_relationships, "owner") = Column(owned, "owner")
            /\ Column(t.uses_fuel_relationships, "plant_name") = Column(EuPlants, "name")
            /\ Column(t.uses_fuel_relationships, "fuel_type")
                  = Column(EuPlants, "primary_fuel")

\* C15, witness: of a row with country "USA" and a row with country "DEU",
\* each with its own plant, owner or fuel, only the second is in the tables.
C15_Witness ==
    /\ norm_out.done
    /\ norm_in.adapter = "powerplants"
    /\ Len(norm_in.df) = 2
    /\ norm_in.df[1].country = "USA"
    /\ norm_in.df[1].owner = "Owner A"
    /\ norm_in.df[2].country = "DEU"
    /\ norm_in.df[2].owner = NaN
    /\ norm_in.df[1].name # norm_in.df[2].name
    /\ Column(norm_out.tables.powerplants_nodes, "plant_name") = <<norm_in.df[2].name>>
    /\ norm_out.tables.owners_nodes = <<>>

OsmDone == norm_out.done /\ norm_in.adapter = "osm"

\* The requested countries whose GeoJSON file exists, in the order of the
\* `countries` argument.
PresentCountries == SelectSeq(norm_in.countries, LAMBDA c : norm_in.files[c].exists)

\* The osm_id found in the files of the requested countries.
FoundIds == UNION {Range(norm_in.files[c].ids) : c \in Range(PresentCountries)}

\* The first country, in the order of `countries`, whose file holds id.
FirstCountryOf(id) ==
    LET k == CHOOSE k \in 1..Len(PresentCountries) :
                 /\ id \in Range(norm_in.files[PresentCountries[k]].ids)
                 /\ \A j \in 1..(k - 1) : id \notin Range(norm_in.files[PresentCountries[j]].ids)
    IN  PresentCountries[k]

\* C16: the node table the OSM normalizer emits for a category has exactly
\* one row per distinct osm_id found in the files of the requested countries,
\* the row kept for an id being that of the first country in the order of
\* `countries` that holds it, and the country table it emits has exactly one
\* row per distinct requested country; one feature each for Austria and
\* Belgium gives 2 node rows and 2 country rows.
C16_OneRowPerOsmIdAndCountry ==
    (OsmDone /\ ~norm_out.raised) =>
        LET t == norm_out.tables
        IN  /\ NoRepeats(Column(t.countries_nodes, "country_name"))
            /\ Range(Column(t.countries_nodes, "country_name")) = Range(norm_in.countries)
            /\ ("nodes" \in DOMAIN t) =>
                  /\ NoRepeats(Column(t.nodes, "osm_id"))
                  /\ Range(Column(t.nodes, "osm_id")) = FoundIds
                  /\ \A i \in 1..Len(t.nodes) :
                        t.nodes[i].country = FirstCountryOf(t.nodes[i].osm_id)
            /\ (/\ norm_in.countries = <<"Austria", "Belgium">>
                /\ norm_in.files["Austria"] = [exists |-> TRUE, ids |-> <<7>>]
                /\ norm_in.files["Belgium"] = [exists |-> TRUE, ids |-> <<8>>])
                  => Len(t.nodes) = 2 /\ Len(t.countries_nodes) = 2

\* C16, witness: an id is in the files of two countries and a country is
\* requested twice; the id is kept once, under the first country.
C16_Witness ==
    /\ OsmDone
    /\ ~norm_out.raised
    /\ Len(norm_in.countries) > Len(norm_out.tables.countries_nodes)
    /\ norm_in.files[norm_in.countries[1]].exists
    /\ norm_in.files[norm_in.countries[2]] = [exists |-> TRUE, ids |-> <<8, 7>>]
    /\ norm_in.files[norm_in.countries[1]].ids = <<7>>
    /\ norm_out.tables.nodes =
          <<[osm_id |-> 7, country |-> norm_in.countries[1]],
            [osm_id |-> 8, country |-> norm_in.countries[2]]>>

\* C17: a missing GeoJSON file is skipped and is no error: the files that
\* exist are all read, whatever their place among the missing ones; the
\* normalizer raises only when files exist and all of them are empty, never
\* for the missing file; the rows of the files that exist are in the tables
\* and the country of the missing file is still a country row.
C17_MissingFileSkipped ==
    (OsmDone /\ \E c \in Range(norm_in.countries) : ~norm_in.files[c].exists) =>
        LET t == norm_out.tables
        IN  /\ norm_out.raised <=>
                  /\ PresentCountries # <<>>
                  /\ \A c \in Range(PresentCountries) : norm_in.files[c].ids = <<>>
            /\ ~norm_out.raised =>
                  /\ Range(Column(t.countries_nodes, "country_name"))
                        = Range(norm_in.countries)
                  /\ ("nodes" \in DOMAIN t) <=> (PresentCountries # <<>>)
                  /\ ("nodes" \in DOMAIN t) =>
                        /\ Range(Column(t.nodes, "osm_id")) = FoundIds
                        /\ Range(Column(t.located_in_relationships, "source_id")) = FoundIds

\* C17, witness: the file of the first country is missing and the features of
\* the second country are in the node table.
C17_Witness ==
    /\ OsmDone
    /\ ~norm_out.raised
    /\ ~norm_in.files[norm_in.countries[1]].exists
    /\ norm_in.files[norm_in.countries[2]] = [exists |-> TRUE, ids |-> <<7, 8>>]
    /\ Column(norm_out.tables.nodes, "osm_id") = <<7, 8>>
    /\ Column(norm_out.tables.nodes, "country") = <<norm_in.countries[2], norm_in.countries[2]>>

GridkitDone == norm_out.done /\ norm_in.adapter = "gridkit"

\* Whether the reverse geocoding of a vertex fails: a coordinate is missing
\* or no number, or the search ends in an exception.
LookupFailed(v) ==
    \/ v.lat = MissingText \/ v.lon = MissingText
    \/ ~IsFloatText(v.lat) \/ ~IsFloatText(v.lon)
    \/ norm_in.rg[<<v.lat, v.lon>>] = SearchError

\* C18: a reverse geocoding failure is not fatal and drops no vertex:
\* grid_nodes has exactly one row per input vertex, in order, with country
\* 'Unknown' where the lookup failed and the code found where it did not.
C18_GeocodingFailureKeepsVertex ==
    GridkitDone =>
        LET grid_nodes == norm_out.tables.grid_nodes
        IN  /\ ~norm_out.raised
            /\ Len(grid_nodes) = Len(norm_in.vertices)
            /\ \A i \in 1..Len(norm_in.vertices) :
                  /\ grid_nodes[i].id = norm_in.vertices[i].v_id
                  /\ grid_nodes[i].country =
                        IF LookupFailed(norm_in.vertices[i]) THEN "Unknown"
                        ELSE norm_in.rg[<<norm_in.vertices[i].lat, norm_in.vertices[i].lon>>]

\* C18, witness: of two vertices, one has a latitude that is no number and
\* the other is found in a country.
C18_Witness ==
    /\ GridkitDone
    /\ Len(norm_in.vertices) = 2
    /\ norm_in.vertices[1].lat = WordCoordinate
    /\ norm_in.vertices[2].lat = Latitude
    /\ norm_in.vertices[2].lon = Longitude
    /\ Column(norm_out.tables.grid_nodes, "country") = <<"Unknown", "DE">>

TsoDone == norm_out.done /\ norm_in.adapter = "tso"

\* C19: the TSO node table is the union, without repeats, of the from-side
\* and the to-side (country, area_code) of the connected pairs, so that a
\* country is a node exactly when it is the source or the target of a
\* relationship row; the relationship table has one row per connected pair,
\* in order, with its status.
C19_TsoNodesAreEndpoints ==
    (TsoDone /\ ~norm_out.raised) =>
        LET rows == norm_in.rows
            nodes == norm_out.tables.tso_nodes
            rels == norm_out.tables.interconnected_with_relationships
        IN  /\ NoRepeats(nodes)
            /\ Range(nodes) =
                  {[country |-> r.tso_from, area_code |-> r.from_area_code] : r \in Range(rows)}
                  \cup {[country |-> r.tso_to, area_code |-> r.to_area_code] : r \in Range(rows)}
            /\ Range(Column(nodes, "country")) =
                  Range(Column(rels, "source_country")) \cup Range(Column(rels, "target_country"))
            /\ Len(rels) = Len(rows)
            /\ NoRepeats(rels)
            /\ \A i \in 1..Len(rows) :
                  rels[i] = [source_country |-> rows[i].tso_from,
                             target_country |-> rows[i].tso_to, status |-> "Connected"]

\* C19, witness: two areas connected in both directions give two nodes and
\* two relationship rows.
C19_Witness ==
    /\ TsoDone
    /\ ~norm_out.raised
    /\ Len(norm_in.rows) = 2
    /\ norm_in.rows[1].tso_from = norm_in.rows[2].tso_to
    /\ norm_in.rows[1].tso_to = norm_in.rows[2].tso_from
    /\ Len(norm_out.tables.tso_nodes) = 2
    /\ Len(norm_out.tables.interconnected_with_relationships) = 2

\* The sweep of a TSO run got a response to every request and none of them
\* qualified as Connected, and the raw CSV was saved.
NoPairConnected ==
    /\ cur = "tso"
    /\ tso_pos > Len(TsoQueryPairs)
    /\ interconnections = <<>>
    /\ "process" \in Range(stages)

\* C20: a TSO run in which no pair is Connected does not end successfully:
\* processing the empty raw CSV raises and the adapter re-raises; neither
\* tso_nodes.csv, interconnected_with_relationships.csv nor the descriptor is
\* written, and the raw CSV is the only file left.
C20_NoConnectedPairRaises ==
    (NoPairConnected /\ pc # "process") =>
        /\ pc \in {"raised", "idle"}
        /\ failed = "process"
        /\ raised = "process"
        /\ "metadata" \notin Range(stages)
        /\ written = <<TsoRawCsv>>
        /\ descriptors = <<>>
        /\ tso_nodes = <<>>
        /\ tso_rels = <<>>
        /\ (pc = "idle") => outcome["tso"] # "ok"

\* C20, witness: such a run has raised out of the adapter.
C20_Witness ==
    /\ NoPairConnected
    /\ Len(tso_queried) = Len(TsoQueryPairs)
    /\ tso_csv = <<>>
    /\ pc = "raised"
    /\ raised = "process"
    /\ written = <<TsoRawCsv>>

\* The GeoJSON files of category c that exist, and whether they exist and
\* hold no feature at all.
FilesOf(c) == {geojson[<<country, c>>] : country \in Range(OsmCountries)} \ {"absent"}
AllFilesEmpty(c) == FilesOf(c) = {"no_features"}

\* prepare_osm_data_for_neo4j has run on a directory in which the files of
\* some category are all empty.
PreparedWithEmptyCategory ==
    /\ cur = "osm"
    /\ "prepare" \in Range(stages)
    /\ \E c \in Range(OsmPrepareCategories) : AllFilesEmpty(c)

\* The CSVs of the categories that have files, for the categories of cats
\* before the first whose files are all empty.
RECURSIVE WrittenBeforeEmpty(_)
WrittenBeforeEmpty(cats) ==
    IF cats = <<>> \/ AllFilesEmpty(Head(cats)) THEN <<>>
    ELSE IF FilesOf(Head(cats)) = {} THEN WrittenBeforeEmpty(Tail(cats))
    ELSE <<OsmNodesCsv(Head(cats)), OsmRelationshipsCsv(Head(cats))>>
             \o WrittenBeforeEmpty(Tail(cats))

C22_CleanUpLeavesOutput ==
    [][(pc = "cleanup" /\ cur \in ArchiveAdapters) =>
          /\ written' = written
          /\ descriptors' = descriptors
          /\ ~zip_exists'
          /\ extract_entries' \subseteq extract_entries]_vars

\* C22, witness: clean_up has run after the CSVs and the descriptor were
\* written, removed the archive, and raised on an entry of the extraction
\* directory; the CSVs and the descriptor are there.
C22_Witness ==
    /\ cur \in ArchiveAdapters
    /\ "cleanup" \in Range(stages)
    /\ raised = "cleanup"
    /\ failed = "none"
    /\ ~zip_exists
    /\ written = CsvFiles(cur)
    /\ Len(descriptors) = 1

====
